---------------------------- MODULE Spec2Model ----------------------------
(***************************************************************************)
(* The flash-attention benchmark Operator                                  *)
(* (torchbenchmark/operators/flash_attention/operator.py) and the          *)
(* benchmark harness it plugs into (torchbenchmark.util.triton_op: the     *)
(* variant registry, the metric registry and the run loop).  The Operator  *)
(* is translated from its source; the harness, whose source is not part    *)
(* of the checked files, is translated from its written contract.          *)
(***************************************************************************)
EXTENDS Integers, Sequences, FiniteSets, TLC

(* ------------------------------ bounds --------------------------------- *)

\* How many recoverable faults (a variant that raises, a timing of 0) the
\* environment injects in one run.
MaxFaults == 1

\* Length of the input sequence of the harness's test operator.
TestLen == 3

\* How many times a model wrapper is made to touch its dataset or model.
MaxCalls == 2

(* ------------------------- program constants --------------------------- *)

DEFAULT_BATCH == 4

DEFAULT_N_HEADS == 48

DEFAULT_D_HEAD == 64

\* ctx_vals = [2**i for i in range(7, 15)]
CTX_EXP_LO == 7

CTX_EXP_HI == 15

\* yolov5: EVAL_BATCH_NUM, the batches one eval() call loads.
EVAL_BATCH_NUM == 1

(* ------------------------------ helpers -------------------------------- *)

\* Python's None is the empty sequence, a present value v is <<v>>.
None == <<>>

Some(v) == <<v>>

IsNone(o) == o = <<>>

Val(o) == o[1]

SeqToSet(s) == {s[i] : i \in 1..Len(s)}

Names(reg) == [i \in 1..Len(reg) |-> reg[i].name]

RECURSIVE Pow2(_)
Pow2(n) == IF n = 0 THEN 1 ELSE 2 * Pow2(n - 1)

(* ------------------------ command-line arguments ----------------------- *)

\* An argument token: <<flag>> for a flag alone, <<flag, value>> for a flag
\* with its value ("--batch 8" or "--batch=8").  The flag is its text, one
\* character per element, so that argparse's prefix matching can be told.
OptionStrings ==
    [batch |-> <<"-", "-", "b", "a", "t", "c", "h">>,
     n_heads |-> <<"-", "-", "n", "-", "h", "e", "a", "d", "s">>,
     d_head |-> <<"-", "-", "d", "-", "h", "e", "a", "d">>,
     causal |-> <<"-", "-", "c", "a", "u", "s", "a", "l">>,
     xformers_splitk |-> <<"-", "-", "x", "f", "o", "r", "m", "e", "r", "s", "-", "s", "p", "l", "i", "t", "k">>]

\* Destinations of the options that take one int value.
KnownValueFlags == {"batch", "n_heads", "d_head"}

\* Destinations of the store_true options.
KnownBoolFlags == {"causal", "xformers_splitk"}

DefaultArgs ==
    [batch |-> DEFAULT_BATCH, n_heads |-> DEFAULT_N_HEADS,
     d_head |-> DEFAULT_D_HEAD, causal |-> FALSE,
     xformers_splitk |-> FALSE, ok |-> TRUE]

startswith(s, prefix) ==
    Len(prefix) <= Len(s) /\ SubSeq(s, 1, Len(prefix)) = prefix

\* The options a flag text selects: the option spelled exactly so, else
\* (ArgumentParser() keeps allow_abbrev on) every long option the text is a
\* prefix of.
option_tuples(text) ==
    IF \E d \in DOMAIN OptionStrings : OptionStrings[d] = text
    THEN {d \in DOMAIN OptionStrings : OptionStrings[d] = text}
    ELSE IF Len(text) > 2 /\ startswith(text, <<"-", "-">>)
    THEN {d \in DOMAIN OptionStrings : startswith(OptionStrings[d], text)}
    ELSE {}

\* Mutation of ApplyArg: a token that selects no option is skipped, as
\* parse_known_args would.
ApplyArg_IgnoresUnknown(ns, tok) ==
    LET m == option_tuples(tok[1])
    IN  IF ~ns.ok THEN ns
        ELSE IF m = {} THEN ns
        ELSE IF Cardinality(m) # 1 THEN [ns EXCEPT !.ok = FALSE]
        ELSE LET d == CHOOSE x \in m : TRUE
             IN  IF d \in KnownValueFlags
                 THEN IF Len(tok) = 2 THEN [ns EXCEPT ![d] = tok[2]]
                      ELSE [ns EXCEPT !.ok = FALSE]
                 ELSE IF Len(tok) = 1 THEN [ns EXCEPT ![d] = TRUE]
                      ELSE [ns EXCEPT !.ok = FALSE]

\* One token consumed by parse_args.  ok = FALSE stands for parser.error:
\* no option or several options selected, a value option without its
\* value, a store_true option given a value.
ApplyArg(ns, tok) ==
    LET m == option_tuples(tok[1])
    IN  IF ~ns.ok THEN ns
        ELSE IF Cardinality(m) # 1 THEN [ns EXCEPT !.ok = FALSE]
        ELSE LET d == CHOOSE x \in m : TRUE
             IN  IF d \in KnownValueFlags
                 THEN IF Len(tok) = 2 THEN [ns EXCEPT ![d] = tok[2]]
                      ELSE [ns EXCEPT !.ok = FALSE]
                 ELSE IF Len(tok) = 1 THEN [ns EXCEPT ![d] = TRUE]
                      ELSE [ns EXCEPT !.ok = FALSE]

RECURSIVE ParseFrom(_, _)
ParseFrom(ns, args) ==
    IF args = <<>> THEN ns
    ELSE ParseFrom(ApplyArg(ns, Head(args)), Tail(args))

\* parse_args: the namespace, or ok = FALSE where argparse calls
\* parser.error (usage message, exit status 2).
parse_op_args(args) == ParseFrom(DefaultArgs, args)

(* ------------------------- the variant registry ------------------------ *)

Entry(n, f, e, b) == [name |-> n, fn |-> f, enabled |-> e, baseline |-> b]

\* Mutation of REGISTERED_BENCHMARKS: tk is decorated without enabled=False.
REGISTERED_BENCHMARKS_TkEnabled ==
    << Entry("aten", "aten", TRUE, TRUE),
       Entry("sdpa", "sdpa", TRUE, FALSE),
       Entry("flash_v2", "flash_v2", TRUE, FALSE),
       Entry("triton_tutorial_flash_v2", "triton_tutorial_flash_v2", TRUE, FALSE),
       Entry("triton_op_flash_v2", "triton_op_flash_v2", TRUE, FALSE),
       Entry("xformers", "xformers", TRUE, FALSE),
       Entry("xformers_splitk", "xformers_splitk", FALSE, FALSE),
       Entry("colfax_cutlass", "colfax_cutlass", FALSE, FALSE),
       Entry("tk", "tk", TRUE, FALSE),
       Entry("cudnn", "cudnn", FALSE, FALSE) >>

\* Mutation of REGISTERED_BENCHMARKS: baseline=True sits on sdpa, not on aten.
REGISTERED_BENCHMARKS_BaselineMoved ==
    << Entry("aten", "aten", TRUE, FALSE),
       Entry("sdpa", "sdpa", TRUE, TRUE),
       Entry("flash_v2", "flash_v2", TRUE, FALSE),
       Entry("triton_tutorial_flash_v2", "triton_tutorial_flash_v2", TRUE, FALSE),
       Entry("triton_op_flash_v2", "triton_op_flash_v2", TRUE, FALSE),
       Entry("xformers", "xformers", TRUE, FALSE),
       Entry("xformers_splitk", "xformers_splitk", FALSE, FALSE),
       Entry("colfax_cutlass", "colfax_cutlass", FALSE, FALSE),
       Entry("tk", "tk", FALSE, FALSE),
       Entry("cudnn", "cudnn", FALSE, FALSE) >>

\* The @register_benchmark decorators of the Operator class, in source order.
\* triton_op_flash_seq_v2 carries no decorator and is not registered.
REGISTERED_BENCHMARKS ==
    << Entry("aten", "aten", TRUE, TRUE),
       Entry("sdpa", "sdpa", TRUE, FALSE),
       Entry("flash_v2", "flash_v2", TRUE, FALSE),
       Entry("triton_tutorial_flash_v2", "triton_tutorial_flash_v2", TRUE, FALSE),
       Entry("triton_op_flash_v2", "triton_op_flash_v2", TRUE, FALSE),
       Entry("xformers", "xformers", TRUE, FALSE),
       Entry("xformers_splitk", "xformers_splitk", FALSE, FALSE),
       Entry("colfax_cutlass", "colfax_cutlass", FALSE, FALSE),
       Entry("tk", "tk", FALSE, FALSE),
       Entry("cudnn", "cudnn", FALSE, FALSE) >>

IsEnabledBaseline(e) == e.enabled /\ e.baseline

IsEnabledOther(e) == e.enabled /\ ~e.baseline

\* Enabled variants, the baseline first, the rest in registration order.
get_enabled_variants(reg) ==
    SelectSeq(reg, IsEnabledBaseline) \o SelectSeq(reg, IsEnabledOther)

Locked(st) == st \in {"RUNNING", "COMPLETED", "ERRORED"}

\* Mutation of register: a registered name is bound again, to the new builder.
register_Rebinds(reg, st, n, f, e, b) ==
    IF Locked(st)
    THEN [registry |-> reg, error |-> "RegistrationLockedError"]
    ELSE IF n \in SeqToSet(Names(reg))
    THEN [registry |-> [i \in 1..Len(reg) |->
                          IF reg[i].name = n THEN Entry(n, f, e, b) ELSE reg[i]],
          error |-> "none"]
    ELSE [registry |-> Append(reg, Entry(n, f, e, b)), error |-> "none"]

\* Mutation of register: no lock, a new name is accepted at any time.
register_NeverLocks(reg, st, n, f, e, b) ==
    IF n \in SeqToSet(Names(reg))
    THEN [registry |-> reg, error |-> "DuplicateNameError"]
    ELSE [registry |-> Append(reg, Entry(n, f, e, b)), error |-> "none"]

\* register(name, builder, enabled, is_baseline) without override: the
\* registry after the call and the error it raises.
register(reg, st, n, f, e, b) ==
    IF Locked(st)
    THEN [registry |-> reg, error |-> "RegistrationLockedError"]
    ELSE IF n \in SeqToSet(Names(reg))
    THEN [registry |-> reg, error |-> "DuplicateNameError"]
    ELSE [registry |-> Append(reg, Entry(n, f, e, b)), error |-> "none"]

(* ------------------------- the input generator ------------------------- *)

\* Mutation of ctx_vals: the range stops one short, range(7, 14).
ctx_vals_StopsShort ==
    [i \in 1..(CTX_EXP_HI - CTX_EXP_LO - 1) |-> Pow2(CTX_EXP_LO + i - 1)]

\* ctx_vals = [2**i for i in range(7, 15)]
ctx_vals == [i \in 1..(CTX_EXP_HI - CTX_EXP_LO) |-> Pow2(CTX_EXP_LO + i - 1)]

\* The input sequence of the harness's test operator: configurations 1..TestLen.
test_vals == [i \in 1..TestLen |-> i]

InputSeq(o) == IF o = "flash_attention" THEN ctx_vals ELSE test_vals

\* Mutation of get_input_iter: k is allocated as (BATCH, H, D_HEAD, N_CTX).
get_input_iter_KTransposed(slf, i, n) ==
    [id |-> i,
     q |-> <<slf.BATCH, slf.H, n, slf.D_HEAD>>,
     k |-> <<slf.BATCH, slf.H, slf.D_HEAD, n>>,
     v |-> <<slf.BATCH, slf.H, n, slf.D_HEAD>>,
     dtype |-> slf.dtype, device |-> slf.device,
     requires_grad |-> TRUE, data |-> 0, grad |-> 0]

\* One step of get_input_iter: fresh q, k, v of shape (BATCH, H, N_CTX, D_HEAD).
\* id names the allocation, data counts in-place writes to the values, grad
\* counts the backward passes accumulated into q.grad, k.grad, v.grad.
get_input_iter(slf, i, n) ==
    [id |-> i,
     q |-> <<slf.BATCH, slf.H, n, slf.D_HEAD>>,
     k |-> <<slf.BATCH, slf.H, n, slf.D_HEAD>>,
     v |-> <<slf.BATCH, slf.H, n, slf.D_HEAD>>,
     dtype |-> slf.dtype, device |-> slf.device,
     requires_grad |-> TRUE, data |-> 0, grad |-> 0]

NoInputs ==
    [id |-> 0, q |-> <<>>, k |-> <<>>, v |-> <<>>, dtype |-> "none",
     device |-> "none", requires_grad |-> FALSE, data |-> 0, grad |-> 0]

\* get_x_val returns self.N_CTX as it is when called.
get_x_val(slf) == slf.N_CTX

(* ------------------------------ variants ------------------------------- *)

\* Mutation of build: flash_v2 packs q, k, v in place.
build_PacksInPlace(name, inp) ==
    IF name = "flash_v2" THEN [inp EXCEPT !.data = @ + 1] ELSE inp

\* What building variant `name` from the inputs does to the inputs.  Every
\* builder of the Operator derives new tensors (make_packed_qkv, permute_qkv,
\* transpose, zeros_like) or only captures q, k, v: none writes to them.
build(name, inp) == inp

\* o_tensor.backward(do, retain_graph=True): gradients accumulate into the
\* leaves q, k, v; their values are not written.
backward(inp) == [inp EXCEPT !.grad = @ + 1]

IncludesBackward(mode) == mode \in {"bwd", "fwd_bwd"}

\* The inputs after variant `name` was built and ran to completion.
run_variant(name, inp, mode) ==
    IF IncludesBackward(mode) THEN backward(build(name, inp))
    ELSE build(name, inp)

\* The shape of the forward output: (BATCH, H, N_CTX, D_HEAD) like q, but
\* (BATCH, N_CTX, H, D_HEAD) from flash_attn_qkvpacked_func and from the
\* xformers operators, which run on the permuted inputs.
fwd_out(name, inp) ==
    IF name \in {"flash_v2", "xformers", "xformers_splitk"}
    THEN <<inp.q[1], inp.q[3], inp.q[2], inp.q[4]>>
    ELSE inp.q

\* Mutation of get_bwd_fn: the upstream gradient is a scalar, not rand_like(o).
get_bwd_fn_ScalarGrad(out) ==
    [events |-> <<"fwd", "grad">>, o |-> out, do |-> <<1>>]

\* get_bwd_fn(fwd_fn): runs the forward closure, builds do = rand_like(o) and
\* returns the closure that calls o.backward(do); out is the shape of o.
get_bwd_fn(out) ==
    [events |-> <<"fwd", "grad">>, o |-> out, do |-> out]

NoTrace == [events |-> <<>>, o |-> <<>>, do |-> <<>>]

\* The steps of one variant run: the builder, the forward closure under the
\* timing scope, and where the mode includes backward, get_bwd_fn and the
\* closure it returns.  A builder or a forward closure that raises ends it.
variant_trace(name, inp, mode, outcome) ==
    IF outcome = "build_raises"
    THEN [events |-> <<"build">>, o |-> <<>>, do |-> <<>>]
    ELSE IF outcome = "exec_raises"
    THEN [events |-> <<"build", "fwd">>, o |-> <<>>, do |-> <<>>]
    ELSE IF mode = "bwd"
    THEN [get_bwd_fn(fwd_out(name, inp)) EXCEPT
            !.events = <<"build">> \o @ \o <<"bwd">>]
    ELSE IF mode = "fwd_bwd"
    THEN [get_bwd_fn(fwd_out(name, inp)) EXCEPT
            !.events = <<"build", "fwd">> \o @ \o <<"bwd">>]
    ELSE [events |-> <<"build", "fwd">>, o |-> fwd_out(name, inp), do |-> <<>>]

\* The external timing scope: the latency measured for a closure that returns.
do_bench(name) == IF name = "aten" THEN 2 ELSE 1

(* ------------------------------- metrics ------------------------------- *)

\* tflops, in units of 2^15 * 1e-9 per latency unit: with N_CTX = 128 * m,
\* 2 * (2.0 * BATCH * H * N_CTX * N_CTX * D_HEAD) = 2^15 * (2 * BATCH*H*D_HEAD*m*m).
\* None where the Python raises: N_CTX or latency is None (TypeError), latency
\* is 0 (ZeroDivisionError).
FlopsUnits(slf) ==
    LET m == Val(slf.N_CTX) \div 128
        base == 2 * slf.BATCH * slf.H * slf.D_HEAD * m * m
        c == IF slf.causal THEN base \div 2 ELSE base
    IN  IF slf.mode = "bwd" THEN (c \div 2) * 5
        ELSE IF slf.mode = "fwd_bwd" THEN (c \div 2) * 7
        ELSE c

\* Mutation of tflops: a latency of 0 is answered with 0 instead of raising.
tflops_ZeroLatencyIsZero(slf, latency) ==
    IF IsNone(slf.N_CTX) \/ IsNone(latency) THEN None
    ELSE IF Val(latency) = 0 THEN Some(0)
    ELSE Some(FlopsUnits(slf) \div Val(latency))

tflops(slf, latency) ==
    IF IsNone(slf.N_CTX) \/ IsNone(latency) THEN None
    ELSE IF Val(latency) = 0 THEN None
    ELSE Some(FlopsUnits(slf) \div Val(latency))

\* The harness's metric step: a metric function that raises leaves the
\* metric unavailable in the row.
compute_metric(o, slf, latency) ==
    IF o = "flash_attention" THEN tflops(slf, latency) ELSE None

(* ------------------------------- state --------------------------------- *)

NoReport == [row |-> 0, tflops |-> None, x_val |-> None]

ModelNames == {"sam", "yolov5"}

\* A model wrapper no method of which was called: what the calls so far did
\* to the dataset and the model, and how the last call ended.
NoWrapper ==
    [constructed |-> FALSE, jit |-> FALSE, dataset_reads |-> 0,
     model_calls |-> 0, trained |-> 0, method |-> "none",
     outcome |-> "none", value |-> "none"]

VARIABLES
    op,          \* which operator class is under the harness
    state,       \* the Operator's lifecycle state
    registry,    \* registered variants, in registration order
    last_error,  \* the error raised by the last register / construct call
    self,        \* the Operator's fields
    gen_idx,     \* how many configurations the generator has yielded
    inputs,      \* the current input configuration (q, k, v)
    variants,    \* get_enabled_variants() as taken for the current configuration
    vidx,        \* index in variants of the next variant to run
    rows,        \* the result rows, append-only
    yielded,     \* every configuration as the generator yielded it
    faults,      \* faults injected so far
    cause,       \* why the Operator is ERRORED
    trace,       \* what the last variant run did, step by step
    report,      \* the last metric computation a report asked for
    wrapper      \* a model wrapper (SAM, YoloV5) and its last call

vars == <<op, state, registry, last_error, self, gen_idx, inputs, variants,
          vidx, rows, yielded, faults, cause, trace, report, wrapper>>

Modes == {"fwd", "bwd", "fwd_bwd"}

\* extra_args the construction is tried with.
BOGUS == <<"-", "-", "b", "o", "g", "u", "s">>

ArgLists == { <<>>, << <<BOGUS>> >> }

\* extra_args of the command lines construction is tried with in SpecArgs:
\* none; --causal; --batch=8 --n-heads=8 --xformers-splitk; --d-head 32;
\* --caus; --bogus; --batch (no value); --batch 8 --batch 2;
\* --causal --bogus; --causal=1.
ArgListsWide ==
    { <<>>,
      << <<OptionStrings.causal>> >>,
      << <<OptionStrings.batch, 8>>, <<OptionStrings.n_heads, 8>>,
         <<OptionStrings.xformers_splitk>> >>,
      << <<OptionStrings.d_head, 32>> >>,
      << <<<<"-", "-", "c", "a", "u", "s">>>> >>,
      << <<BOGUS>> >>,
      << <<OptionStrings.batch>> >>,
      << <<OptionStrings.batch, 8>>, <<OptionStrings.batch, 2>> >>,
      << <<OptionStrings.causal>>, <<BOGUS>> >>,
      << <<OptionStrings.causal, 1>> >> }

NoSelf ==
    [mode |-> "none", device |-> "none", dtype |-> "none", BATCH |-> 0, H |-> 0,
     D_HEAD |-> 0, N_CTX |-> None, causal |-> FALSE, xformers_splitk |-> FALSE]

InitCommon ==
    /\ state = "UNINITIALIZED"
    /\ last_error = "none"
    /\ self = NoSelf
    /\ gen_idx = 0
    /\ inputs = NoInputs
    /\ variants = <<>>
    /\ vidx = 1
    /\ rows = <<>>
    /\ yielded = <<>>
    /\ faults = 0
    /\ cause = "none"
    /\ trace = NoTrace
    /\ report = NoReport
    /\ wrapper = [m \in ModelNames |-> NoWrapper]

\* The flash-attention Operator class is defined: its decorators have run.
Init ==
    /\ op = "flash_attention"
    /\ registry = REGISTERED_BENCHMARKS
    /\ InitCommon

\* Operator.__init__(mode, device, extra_args).
Operator_init(mode, device, args) ==
    LET a == parse_op_args(args)
    IN  [mode |-> mode, device |-> device, dtype |-> "bf16",
         BATCH |-> a.batch, H |-> a.n_heads, D_HEAD |-> a.d_head,
         N_CTX |-> None, causal |-> a.causal,
         xformers_splitk |-> a.xformers_splitk]

Construct(mode, args) ==
    /\ state = "UNINITIALIZED"
    /\ IF parse_op_args(args).ok
       THEN /\ self' = Operator_init(mode, "cuda", args)
            /\ state' = "CONFIGURED"
            /\ last_error' = "none"
       ELSE /\ last_error' = "ConfigError"
            /\ UNCHANGED <<self, state>>
    /\ UNCHANGED <<op, registry, gen_idx, inputs, variants, vidx, rows,
                   yielded, faults, cause,
                   trace, report, wrapper>>

\* The run entry point: iteration starts.
Run ==
    /\ state = "CONFIGURED"
    /\ state' = "RUNNING"
    /\ UNCHANGED <<op, registry, last_error, self, gen_idx, inputs, variants,
                   vidx, rows, yielded, faults, cause,
                   trace, report, wrapper>>

\* The current configuration's variants have all been run (or none was pulled yet).
AtConfigBoundary == vidx > Len(variants)

\* next() on the generator yields: fresh inputs, self.N_CTX set, and the
\* harness takes the enabled variants for this configuration.
GenYield ==
    /\ state = "RUNNING"
    /\ AtConfigBoundary
    /\ gen_idx < Len(InputSeq(op))
    /\ LET n == InputSeq(op)[gen_idx + 1]
           x == get_input_iter(self, gen_idx + 1, n)
       IN  /\ inputs' = x
           /\ yielded' = Append(yielded, x)
           /\ self' = [self EXCEPT !.N_CTX = Some(n)]
    /\ gen_idx' = gen_idx + 1
    /\ variants' = get_enabled_variants(registry)
    /\ vidx' = 1
    /\ UNCHANGED <<op, state, registry, last_error, rows, faults, cause,
                   trace, report, wrapper>>

\* next() on the generator signals done: the sweep is complete.
GenExhausted ==
    /\ state = "RUNNING"
    /\ AtConfigBoundary
    /\ gen_idx >= Len(InputSeq(op))
    /\ state' = "COMPLETED"
    /\ UNCHANGED <<op, registry, last_error, self, gen_idx, inputs, variants,
                   vidx, rows, yielded, faults, cause,
                   trace, report, wrapper>>

\* Sequence generation fails (torch.randn raises while allocating q, k, v).
GenFail ==
    /\ state = "RUNNING"
    /\ AtConfigBoundary
    /\ gen_idx < Len(InputSeq(op))
    /\ state' = "ERRORED"
    /\ cause' = "SequenceGenerationError"
    /\ UNCHANGED <<op, registry, last_error, self, gen_idx, inputs, variants,
                   vidx, rows, yielded, faults,
                   trace, report, wrapper>>

Row(name, inp, slf, latency, metric, err) ==
    [cfg |-> gen_idx, name |-> name, input |-> inp.id, data |-> inp.data,
     x_val |-> get_x_val(slf), latency |-> latency, tflops |-> metric,
     error |-> err]

\* Mutation of RunVariantStep: a variant that raises is skipped without a row.
RunVariantStep_DropsFailedRow(outcome) ==
    LET name == variants[vidx].name
        latency == IF outcome = "ok" THEN Some(do_bench(name)) ELSE Some(0)
    IN  /\ inputs' = IF outcome \in {"build_raises", "exec_raises"} THEN inputs
                     ELSE run_variant(name, inputs, self.mode)
        /\ rows' = IF outcome \in {"build_raises", "exec_raises"} THEN rows
                   ELSE Append(rows, Row(name, inputs, self, latency,
                                         compute_metric(op, self, latency), "none"))
        /\ trace' = variant_trace(name, inputs, self.mode, outcome)
        /\ vidx' = vidx + 1

\* One variant of the current configuration: build, time, compute metrics,
\* append the row.  outcome is what the variant's code does this time.
RunVariantStep(outcome) ==
    LET name == variants[vidx].name
        built == build(name, inputs)
        latency == IF outcome = "ok" THEN Some(do_bench(name))
                   ELSE IF outcome = "zero_latency" THEN Some(0)
                   ELSE None
        err == IF outcome \in {"build_raises", "exec_raises"}
               THEN "VariantExecutionError" ELSE "none"
    IN  /\ inputs' = IF outcome = "build_raises" THEN inputs
                     ELSE IF outcome = "exec_raises" THEN built
                     ELSE run_variant(name, inputs, self.mode)
        /\ rows' = Append(rows, Row(name, built, self, latency,
                                    compute_metric(op, self, latency), err))
        /\ trace' = variant_trace(name, inputs, self.mode, outcome)
        /\ vidx' = vidx + 1

RunVariant ==
    /\ state = "RUNNING"
    /\ ~AtConfigBoundary
    /\ RunVariantStep("ok")
    /\ UNCHANGED <<op, state, registry, last_error, self, gen_idx, variants,
                   yielded, faults, cause,
                   report, wrapper>>

\* Mutation of VariantFault: a variant that raises takes the Operator down.
VariantFault_Escalates(outcome) ==
    /\ state = "RUNNING"
    /\ ~AtConfigBoundary
    /\ faults < MaxFaults
    /\ faults' = faults + 1
    /\ RunVariantStep(outcome)
    /\ state' = IF outcome = "zero_latency" THEN state ELSE "ERRORED"
    /\ cause' = IF outcome = "zero_latency" THEN cause ELSE "VariantExecutionError"
    /\ UNCHANGED <<op, registry, last_error, self, gen_idx, variants, yielded,
                   report, wrapper>>

\* The variant's builder or its closure raises, or the timing comes back 0.
VariantFault(outcome) ==
    /\ state = "RUNNING"
    /\ ~AtConfigBoundary
    /\ faults < MaxFaults
    /\ faults' = faults + 1
    /\ RunVariantStep(outcome)
    /\ UNCHANGED <<op, state, registry, last_error, self, gen_idx, variants,
                   yielded, cause,
                   report, wrapper>>

\* Catastrophic resource exhaustion (out of memory) while a variant runs:
\* the sweep is terminated.
ResourceExhaustion ==
    /\ state = "RUNNING"
    /\ ~AtConfigBoundary
    /\ state' = "ERRORED"
    /\ cause' = "ResourceExhaustionError"
    /\ UNCHANGED <<op, registry, last_error, self, gen_idx, inputs, variants,
                   vidx, rows, yielded, faults,
                   trace, report, wrapper>>

FaultOutcomes == {"build_raises", "exec_raises", "zero_latency"}

Sweep ==
    \/ GenYield
    \/ GenExhausted
    \/ RunVariant

Next ==
    \/ \E m \in Modes, a \in ArgLists : Construct(m, a)
    \/ Run
    \/ Sweep
    \/ GenFail
    \/ \E o \in FaultOutcomes : VariantFault(o)
    \/ ResourceExhaustion

Spec == Init /\ [][Next]_vars

\* The Operator constructed in forward+backward mode, the mode in which a
\* variant's step does the most work.
NextFair ==
    \/ \E a \in ArgLists : Construct("fwd_bwd", a)
    \/ Run
    \/ Sweep
    \/ GenFail
    \/ \E o \in FaultOutcomes : VariantFault(o)
    \/ ResourceExhaustion

\* The run loop is a plain loop: while it can take a step, it does.
FairSpec == Init /\ [][NextFair]_vars /\ WF_vars(Sweep)

(* ------------------- the registry under register calls ------------------ *)

\* Names and builders the register calls are tried with.
RegNames == {"baseline", "fast"}

Builders == {"fn_a", "fn_b"}

\* A register(name, builder, enabled, is_baseline) call, at any time.
Register(n, f, e, b) ==
    /\ registry' = register(registry, state, n, f, e, b).registry
    /\ last_error' = register(registry, state, n, f, e, b).error
    /\ UNCHANGED <<op, state, self, gen_idx, inputs, variants, vidx, rows,
                   yielded, faults, cause,
                   trace, report, wrapper>>

\* Either the flash-attention Operator, or the harness's test operator with
\* nothing registered yet and an input sequence of TestLen configurations.
InitRegistry ==
    /\ op \in {"flash_attention", "test"}
    /\ registry = IF op = "flash_attention" THEN REGISTERED_BENCHMARKS ELSE <<>>
    /\ InitCommon

NextRegistry ==
    \/ \E n \in RegNames, f \in Builders, e \in BOOLEAN, b \in BOOLEAN :
          Register(n, f, e, b)
    \/ \E a \in ArgLists : Construct("fwd", a)
    \/ Run
    \/ Sweep
    \/ GenFail
    \/ ResourceExhaustion

SpecRegistry == InitRegistry /\ [][NextRegistry]_vars

(* ------------------ construction from a command line ------------------ *)

NextArgs ==
    \/ \E m \in Modes, a \in ArgListsWide : Construct(m, a)
    \/ Run
    \/ Sweep

SpecArgs == Init /\ [][NextArgs]_vars

(* ------------------- metrics computed for a report -------------------- *)

\* A report asks for the metrics of row i: tflops and get_x_val are called
\* again, with the inputs and the timing of that row, on the Operator as it
\* is now.
ReportMetric(i) ==
    /\ state \in {"RUNNING", "COMPLETED"}
    /\ i \in 1..Len(rows)
    /\ report' = [row |-> i,
                  tflops |-> compute_metric(op, self, rows[i].latency),
                  x_val |-> get_x_val(self)]
    /\ UNCHANGED <<op, state, registry, last_error, self, gen_idx, inputs,
                   variants, vidx, rows, yielded, faults, cause, trace, wrapper>>

NextLazy ==
    \/ \E a \in ArgLists : Construct("fwd", a)
    \/ Run
    \/ Sweep
    \/ \E i \in 1..Len(rows) : ReportMetric(i)

SpecLazy == Init /\ [][NextLazy]_vars

(* --------------------------- the model wrappers ------------------------ *)

OperatorVars ==
    <<op, state, registry, last_error, self, gen_idx, inputs, variants, vidx,
      rows, yielded, faults, cause, trace, report>>

\* The wrapper after a call of `method` that ended with `outcome`.
Called(w, method, outcome, value) ==
    [w EXCEPT !.method = method, !.outcome = outcome, !.value = value]

\* Model.__init__(..., jit=jit) of either wrapper.
ModelInit(m, jit) ==
    /\ ~wrapper[m].constructed
    /\ wrapper' = [wrapper EXCEPT ![m] = [NoWrapper EXCEPT !.constructed = TRUE,
                                                          !.jit = jit]]
    /\ UNCHANGED OperatorVars

\* Mutation of SamTrain: the NotImplementedError is raised.
SamTrain_Raises ==
    /\ wrapper["sam"].constructed
    /\ wrapper' = [wrapper EXCEPT !["sam"] =
                      Called(@, "train", "raised", "NotImplementedError")]
    /\ UNCHANGED OperatorVars

\* sam Model.train(): builds the message and returns the exception object.
SamTrain ==
    /\ wrapper["sam"].constructed
    /\ wrapper' = [wrapper EXCEPT !["sam"] =
                      Called(@, "train", "returned", "NotImplementedError")]
    /\ UNCHANGED OperatorVars

\* sam Model.eval(): reads the image and runs the predictor on the model; it
\* raises, before the model is run, where the image cannot be read.
SamEval(outcome) ==
    /\ wrapper["sam"].constructed
    /\ wrapper["sam"].model_calls < MaxCalls
    /\ wrapper' = [wrapper EXCEPT !["sam"] =
                      IF outcome = "raised"
                      THEN Called(@, "eval", "raised", "cv2.error")
                      ELSE Called([@ EXCEPT !.model_calls = @ + 1],
                                  "eval", "returned", "masks")]
    /\ UNCHANGED OperatorVars

\* yolov5 Model.train(): one epoch over the training batches.
YoloTrain ==
    /\ wrapper["yolov5"].constructed
    /\ wrapper["yolov5"].trained < MaxCalls
    /\ wrapper' = [wrapper EXCEPT !["yolov5"] =
                      Called([@ EXCEPT !.trained = @ + 1],
                             "train", "returned", "None")]
    /\ UNCHANGED OperatorVars

\* yolov5 Model.eval(): with jit, returns the exception object at once; else
\* loads EVAL_BATCH_NUM batches and runs the model on each.
YoloEval ==
    /\ wrapper["yolov5"].constructed
    /\ IF wrapper["yolov5"].jit
       THEN wrapper' = [wrapper EXCEPT !["yolov5"] =
                           Called(@, "eval", "returned", "NotImplementedError")]
       ELSE /\ wrapper["yolov5"].model_calls + EVAL_BATCH_NUM <= MaxCalls
            /\ wrapper' = [wrapper EXCEPT !["yolov5"] =
                              Called([@ EXCEPT
                                         !.dataset_reads = @ + EVAL_BATCH_NUM,
                                         !.model_calls = @ + EVAL_BATCH_NUM],
                                     "eval", "returned", "None")]
    /\ UNCHANGED OperatorVars

NextModels ==
    \/ \E m \in ModelNames, jit \in BOOLEAN : ModelInit(m, jit)
    \/ SamTrain
    \/ \E o \in {"returned", "raised"} : SamEval(o)
    \/ YoloTrain
    \/ YoloEval

SpecModels == Init /\ [][NextModels]_vars

(* ------------------------------- claims -------------------------------- *)

\* Rows due so far: every variant of the finished configurations and the
\* variants already run of the current one.
Processed ==
    IF gen_idx = 0 THEN 0 ELSE (gen_idx - 1) * Len(variants) + (vidx - 1)

HasNoLatency(r) == IsNone(r.latency)

Marked(r) == IsNone(r.latency) \/ r.latency = Some(0)

\* C1: per-variant failure isolation.  Every (configuration, variant) pair
\* processed so far has its row, in sweep order; a variant that raised has a
\* row without a latency value (an explicit gap, one per fault), every other
\* row has one; and a completed sweep holds a row for every pair.
C1_FailureIsolation ==
    /\ Len(rows) = Processed
    /\ \A i \in 1..Len(rows) :
          /\ rows[i].cfg = ((i - 1) \div Len(variants)) + 1
          /\ rows[i].name = variants[((i - 1) % Len(variants)) + 1].name
          /\ rows[i].error = "VariantExecutionError" <=> HasNoLatency(rows[i])
    /\ Cardinality({i \in 1..Len(rows) : Marked(rows[i])}) = faults
    /\ state = "COMPLETED" => Len(rows) = Len(InputSeq(op)) * Len(variants)

\* C1 witness: a completed sweep of 8 x 6 rows in which a variant raised at
\* configuration 5 and the next variant of configuration 5 was still timed.
C1_Witness ==
    /\ state = "COMPLETED"
    /\ Len(rows) = 48
    /\ \E i \in 1..(Len(rows) - 1) :
          /\ rows[i].cfg = 5 /\ HasNoLatency(rows[i])
          /\ rows[i + 1].cfg = 5 /\ ~HasNoLatency(rows[i + 1])

Transitions ==
    { <<"UNINITIALIZED", "CONFIGURED">>, <<"CONFIGURED", "RUNNING">>,
      <<"RUNNING", "COMPLETED">>, <<"RUNNING", "ERRORED">> }

FatalCauses == {"SequenceGenerationError", "ResourceExhaustionError"}

LifecycleStep ==
    /\ state' # state => <<state, state'>> \in Transitions
    /\ state' = "ERRORED" => cause' \in FatalCauses
    /\ state' # "ERRORED" => cause' = "none"
    /\ (/\ Len(rows') = Len(rows) + 1
        /\ rows'[Len(rows')].error = "VariantExecutionError") => state' = "RUNNING"

\* C2: the lifecycle state only moves UNINITIALIZED -> CONFIGURED -> RUNNING
\* -> COMPLETED or RUNNING -> ERRORED; COMPLETED and ERRORED are left by no
\* step; ERRORED is entered from RUNNING only, for a failed sequence
\* generation or resource exhaustion; a step that records a variant's
\* failure leaves the Operator RUNNING.
C2_Lifecycle == [][LifecycleStep]_vars

\* C2 witness: the Operator is ERRORED for resource exhaustion after a sweep
\* in which an earlier variant failure was recorded without leaving RUNNING.
C2_Witness ==
    /\ state = "ERRORED"
    /\ cause = "ResourceExhaustionError"
    /\ \E i \in 1..Len(rows) : rows[i].error = "VariantExecutionError"

YieldedCtx == [i \in 1..Len(yielded) |-> yielded[i].q[3]]

\* C3: termination.  A RUNNING Operator eventually is COMPLETED or ERRORED;
\* it is COMPLETED only with the generator exhausted and every variant of
\* the last configuration run, having yielded exactly the 8 context lengths
\* 2^7 .. 2^14 once each; and it is ERRORED only for a fatal error.
C3_Termination ==
    /\ [](state = "COMPLETED" =>
            /\ AtConfigBoundary
            /\ YieldedCtx = <<128, 256, 512, 1024, 2048, 4096, 8192, 16384>>)
    /\ [](state = "RUNNING" /\ AtConfigBoundary /\ gen_idx = 8 => ENABLED GenExhausted)
    /\ [](state = "ERRORED" => cause \in FatalCauses)
    /\ (state = "RUNNING") ~> (state \in {"COMPLETED", "ERRORED"})

\* C3 witness: the sweep completed after the eighth configuration.
C3_Witness ==
    /\ state = "COMPLETED"
    /\ gen_idx = 8
    /\ cause = "none"
    /\ YieldedCtx[8] = 16384

DisabledByDefault == {"xformers_splitk", "colfax_cutlass", "tk", "cudnn"}

RegisteredEnabled(name) ==
    \E j \in 1..Len(registry) : registry[j].name = name /\ registry[j].enabled

\* C4: get_enabled_variants() returns registered, enabled variants only, in
\* every registry state the register calls reach; no row is ever produced
\* for a variant that is not registered as enabled; and the flash-attention
\* Operator never builds or runs xformers_splitk, colfax_cutlass, tk or cudnn.
C4_NoDisabledVariant ==
    /\ \A e \in SeqToSet(get_enabled_variants(registry)) :
          e \in SeqToSet(registry) /\ e.enabled
    /\ \A e \in SeqToSet(variants) : e.enabled
    /\ \A i \in 1..Len(rows) : RegisteredEnabled(rows[i].name)
    /\ op = "flash_attention" =>
          /\ \A e \in SeqToSet(get_enabled_variants(registry)) :
                e.name \notin DisabledByDefault
          /\ \A i \in 1..Len(rows) : rows[i].name \notin DisabledByDefault

\* C4 witness: a completed flash-attention sweep, with a further variant
\* registered disabled before the run, that has no row for it.
C4_Witness ==
    /\ op = "flash_attention"
    /\ state = "COMPLETED"
    /\ Len(rows) = 48
    /\ \E j \in 1..Len(registry) : registry[j].name = "fast" /\ ~registry[j].enabled

Pos(reg, name) == CHOOSE j \in 1..Len(reg) : reg[j].name = name

\* Baselines before the others, and registration order within each group.
InOrder(vs, reg) ==
    \A i \in 1..Len(vs), j \in 1..Len(vs) :
       i < j => \/ vs[i].baseline /\ ~vs[j].baseline
                \/ /\ vs[i].baseline = vs[j].baseline
                   /\ Pos(reg, vs[i].name) < Pos(reg, vs[j].name)

RowNames == [i \in 1..Len(rows) |-> rows[i].name]

\* C5: deterministic variant order.  get_enabled_variants() lists the
\* baseline first and the rest in registration order, and every
\* configuration of a sweep is run in that same order, its rows grouped per
\* configuration; the flash-attention Operator as defined runs aten, sdpa,
\* flash_v2, triton_tutorial_flash_v2, triton_op_flash_v2, xformers in that
\* order; a completed sweep of 3 configurations over {baseline
\* (is_baseline), fast} has exactly the 6 rows baseline, fast, baseline,
\* fast, baseline, fast.
C5_DeterministicOrder ==
    /\ InOrder(get_enabled_variants(registry), registry)
    /\ gen_idx > 0 => variants = get_enabled_variants(registry)
    /\ \A i \in 1..Len(rows) :
          /\ rows[i].cfg = ((i - 1) \div Len(variants)) + 1
          /\ rows[i].name = variants[((i - 1) % Len(variants)) + 1].name
    /\ (op = "flash_attention" /\ registry = REGISTERED_BENCHMARKS) =>
          Names(get_enabled_variants(registry)) =
             <<"aten", "sdpa", "flash_v2", "triton_tutorial_flash_v2",
               "triton_op_flash_v2", "xformers">>
    /\ (/\ op = "test" /\ state = "COMPLETED" /\ Len(InputSeq(op)) = 3
        /\ Len(registry) = 2
        /\ \E j \in 1..2 : registry[j] \in
              {Entry("baseline", f, TRUE, TRUE) : f \in Builders}
        /\ \E j \in 1..2 : registry[j] \in
              {Entry("fast", f, TRUE, FALSE) : f \in Builders})
       => RowNames = <<"baseline", "fast", "baseline", "fast", "baseline", "fast">>

\* C5 witness: the scenario with fast registered before baseline: 3
\* configurations, 6 rows, the baseline row first in each.
C5_Witness ==
    /\ op = "test"
    /\ state = "COMPLETED"
    /\ Len(registry) = 2
    /\ registry[1].name = "fast" /\ registry[1].enabled /\ ~registry[1].baseline
    /\ registry[2].name = "baseline" /\ registry[2].enabled /\ registry[2].baseline
    /\ Len(rows) = 6
    /\ rows[1].name = "baseline" /\ rows[1].cfg = 1
    /\ rows[6].name = "fast" /\ rows[6].cfg = 3

RegCalls == RegNames \X Builders \X BOOLEAN \X BOOLEAN

C7_RegistrationLocked ==
    /\ [](Locked(state) =>
            \A c \in RegCalls :
               register(registry, state, c[1], c[2], c[3], c[4]) =
                  [registry |-> registry, error |-> "RegistrationLockedError"])
    /\ [][Locked(state) =>
            /\ registry' = registry
            /\ last_error' # last_error => last_error' = "RegistrationLockedError"]_vars
    /\ [](gen_idx > 0 => variants = get_enabled_variants(registry))
    /\ [](\A i \in 1..Len(rows) :
            i > Len(variants) => rows[i].name = rows[i - Len(variants)].name)

\* C7 witness: a register call failed with RegistrationLockedError in the
\* middle of a sweep that has reached its second configuration.
C7_Witness ==
    /\ state = "RUNNING"
    /\ last_error = "RegistrationLockedError"
    /\ gen_idx = 2
    /\ Len(rows) > Len(variants)
    /\ Len(variants) > 0

\* C8: fair comparison.  Every row of a configuration was built from the
\* instance the generator yielded for that configuration, with the values
\* it was yielded with; the current inputs are that instance, unchanged but
\* for accumulated gradients; and the generator advances, and the inputs
\* are replaced, only between configurations.
C8_SameInputs ==
    /\ [](\A i \in 1..Len(rows) : rows[i].input = rows[i].cfg /\ rows[i].data = 0)
    /\ [](gen_idx > 0 => [inputs EXCEPT !.grad = 0] = yielded[gen_idx])
    /\ [][(gen_idx' # gen_idx \/ inputs'.id # inputs.id) => AtConfigBoundary]_vars
    /\ [][~AtConfigBoundary =>
            [inputs' EXCEPT !.grad = 0] = [inputs EXCEPT !.grad = 0]]_vars

\* C8 witness: backward mode, all six variants of the second configuration
\* have run on the second instance.
C8_Witness ==
    /\ state = "RUNNING"
    /\ self.mode = "bwd"
    /\ gen_idx = 2
    /\ vidx = 7
    /\ inputs.grad = 6
    /\ \A i \in 7..12 : rows[i].input = 2

\* C9: the yielded configurations differ in the swept dimension only: q, k
\* and v of a step have one shape (BATCH, H, N_CTX, D_HEAD); batch size,
\* head count, head dimension, dtype and device are those of the first
\* step; the context length starts at 128, doubles at each step and ends at
\* 16384.
C9_SweptDimensionOnly ==
    \A i \in 1..Len(yielded) :
       /\ yielded[i].q = yielded[i].k /\ yielded[i].k = yielded[i].v
       /\ Len(yielded[i].q) = 4
       /\ yielded[i].q[1] = yielded[1].q[1]
       /\ yielded[i].q[2] = yielded[1].q[2]
       /\ yielded[i].q[4] = yielded[1].q[4]
       /\ yielded[i].dtype = yielded[1].dtype
       /\ yielded[i].device = yielded[1].device
       /\ yielded[1].q[3] = 128
       /\ yielded[i].q[3] <= 16384
       /\ i > 1 => yielded[i].q[3] = 2 * yielded[i - 1].q[3]
       /\ state = "COMPLETED" => yielded[Len(yielded)].q[3] = 16384

\* C9 witness: all eight configurations have been yielded.
C9_Witness ==
    /\ Len(yielded) = 8
    /\ yielded[8].q = <<4, 48, 16384, 64>>
    /\ yielded[1].q = <<4, 48, 128, 64>>

\* C10: metric failure isolation.  A row whose tflops computation raises
\* (its latency is 0, or it has none) records tflops as unavailable and is
\* still recorded; a row with a positive latency has its tflops; the sweep
\* goes on with the next variant, and the Operator is ERRORED for fatal
\* causes only.
C10_MetricIsolation ==
    /\ \A i \in 1..Len(rows) :
          /\ rows[i].latency = Some(0) =>
                IsNone(rows[i].tflops) /\ rows[i].error = "none"
          /\ IsNone(rows[i].latency) => IsNone(rows[i].tflops)
          /\ ~Marked(rows[i]) => ~IsNone(rows[i].tflops)
    /\ Len(rows) = Processed
    /\ state = "ERRORED" => cause \in FatalCauses
    /\ state = "COMPLETED" => Len(rows) = Len(InputSeq(op)) * Len(variants)

\* C10 witness: a completed sweep in which a row with latency 0 has no
\* tflops and the next variant's row has both.
C10_Witness ==
    /\ state = "COMPLETED"
    /\ Len(rows) = 48
    /\ \E i \in 1..(Len(rows) - 1) :
          /\ rows[i].latency = Some(0) /\ IsNone(rows[i].tflops)
          /\ ~Marked(rows[i + 1]) /\ ~IsNone(rows[i + 1].tflops)
          /\ rows[i + 1].cfg = rows[i].cfg

\* The sequence length of the q, k, v that row r was built from.
SeqLenOf(r) == yielded[r.cfg].q[3]

\* C11: metric idempotence.  The tflops a report computes for a row equals
\* the tflops computed for the same variant, inputs and timing when the row
\* was recorded, whatever happened in between.
C11_MetricIdempotent ==
    report.row > 0 => report.tflops = rows[report.row].tflops

\* C15: context-length consistency.  Whenever a row's variant is run and
\* whenever get_x_val or tflops is computed for a row, self.N_CTX is the
\* sequence length of the q, k, v of that row.
C15_NCtxMatchesInputs ==
    /\ \A i \in 1..Len(rows) : rows[i].x_val = Some(SeqLenOf(rows[i]))
    /\ report.row > 0 => report.x_val = Some(SeqLenOf(rows[report.row]))

\* The five flags spelled in full.
RecognizedFlags == {OptionStrings[d] : d \in DOMAIN OptionStrings}

OnlyRecognized(args) ==
    \A i \in 1..Len(args) : args[i][1] \in RecognizedFlags

\* The flag text names option d: in full or by a prefix longer than "--".
Selects(text, d) == Len(text) > 2 /\ startswith(OptionStrings[d], text)

\* Every token names an option, with a value exactly when the option takes one.
WellFormed(args) ==
    \A i \in 1..Len(args) :
        \E d \in DOMAIN OptionStrings :
            /\ Selects(args[i][1], d)
            /\ Len(args[i]) = 2 <=> d \in KnownValueFlags

\* The value the command line gives option d: that of its last occurrence,
\* else the default.
Given(args, d, default) ==
    LET hits == {i \in 1..Len(args) : Selects(args[i][1], d)}
    IN  IF hits = {} THEN default
        ELSE LET last == CHOOSE i \in hits : \A j \in hits : j <= i
             IN  IF d \in KnownValueFlags THEN args[last][2] ELSE TRUE

ParsedValues(slf, m, a) ==
    /\ slf.mode = m
    /\ slf.BATCH = Given(a, "batch", 4)
    /\ slf.H = Given(a, "n_heads", 48)
    /\ slf.D_HEAD = Given(a, "d_head", 64)
    /\ slf.causal = Given(a, "causal", FALSE)
    /\ slf.xformers_splitk = Given(a, "xformers_splitk", FALSE)

Rejected ==
    /\ last_error' = "ConfigError"
    /\ state' = "UNINITIALIZED"
    /\ self' = self

Accepted(m, a) ==
    /\ last_error' = "none"
    /\ state' = "CONFIGURED"
    /\ ParsedValues(self', m, a)

C14_SplitkFollowsFlag ==
    state = "COMPLETED" =>
        ((\E i \in 1..Len(rows) : rows[i].name = "xformers_splitk")
            <=> self.xformers_splitk)

\* Positions of event e in the calls made for the last variant.
At(e) == {i \in 1..Len(trace.events) : trace.events[i] = e}

\* The calls for the last variant are: the forward closure, then one
\* upstream gradient shaped like that forward output, then one backward.
ForwardGradBackward ==
    /\ Cardinality(At("grad")) = 1
    /\ Cardinality(At("bwd")) = 1
    /\ \E f \in At("fwd"), g \in At("grad"), b \in At("bwd") : f < g /\ g < b
    /\ Len(trace.o) = 4
    /\ trace.do = trace.o

NoBackward == At("grad") = {} /\ At("bwd") = {} /\ trace.do = <<>>

\* C13 as stated: for every (configuration, enabled variant) that was run,
\* backward was invoked if and only if the mode includes backward.
C13_AsStated ==
    trace # NoTrace =>
        (At("bwd") # {} <=> IncludesBackward(self.mode))

\* C13, amended: for every (configuration, enabled variant) whose builder and
\* forward closure returned, backward is invoked if and only if the mode
\* includes backward, and then after the forward closure and after a
\* synthetic gradient with the shape of the forward output; a variant whose
\* builder or forward closure raised gets no gradient and no backward in any
\* mode; in forward-only mode no gradient is constructed and no backward is
\* invoked.
C13_BackwardHandling ==
    trace # NoTrace =>
        LET last == rows[Len(rows)]
        IN  /\ Len(rows) > 0
            /\ IF last.error = "none" /\ IncludesBackward(self.mode)
               THEN ForwardGradBackward
               ELSE NoBackward

\* C13 witness: in backward-only mode flash_v2, whose output is laid out
\* (BATCH, N_CTX, H, D_HEAD), ran forward, got a gradient of that shape and
\* ran backward.
C13_Witness ==
    /\ self.mode = "bwd"
    /\ Len(rows) > 0
    /\ rows[Len(rows)].name = "flash_v2"
    /\ rows[Len(rows)].error = "none"
    /\ trace.events = <<"build", "fwd", "grad", "bwd">>
    /\ trace.o = <<4, 256, 48, 64>>
    /\ trace.do = trace.o

\* What a caller that wraps the call in try/except sees of the last call.
Observed(w) == IF w.outcome = "raised" THEN "failed" ELSE "completed"

Touched(w) == <<w.dataset_reads, w.model_calls, w.trained>>

\* The last call gave back a NotImplementedError object as its value.
ReturnedNotImplemented(w) ==
    /\ w.outcome = "returned"
    /\ w.value = "NotImplementedError"
    /\ Observed(w) = "completed"

\* C16: unsupported operations are returned, not raised.  After sam train(),
\* and after yolov5 eval() with jit, the call has returned a
\* NotImplementedError object and a caller catching exceptions saw it
\* complete; the step of such a call leaves the dataset and the model as
\* they were.
C16_ReturnedNotRaised ==
    /\ [](wrapper["sam"].method = "train" =>
             ReturnedNotImplemented(wrapper["sam"]))
    /\ [](wrapper["yolov5"].method = "eval" /\ wrapper["yolov5"].jit =>
             ReturnedNotImplemented(wrapper["yolov5"]))
    /\ [][/\ SamTrain => Touched(wrapper["sam"]') = Touched(wrapper["sam"])
          /\ (YoloEval /\ wrapper["yolov5"].jit) =>
                 Touched(wrapper["yolov5"]') = Touched(wrapper["yolov5"])]_vars

\* C16 witness: sam train() was called after an eval() that had run the
\* model, and yolov5 eval() with jit after a train(); both returned the
\* exception object.
C16_Witness ==
    /\ wrapper["sam"].method = "train"
    /\ wrapper["sam"].model_calls > 0
    /\ wrapper["sam"].value = "NotImplementedError"
    /\ wrapper["yolov5"].jit
    /\ wrapper["yolov5"].method = "eval"
    /\ wrapper["yolov5"].trained > 0
    /\ wrapper["yolov5"].value = "NotImplementedError"
    /\ wrapper["yolov5"].dataset_reads = 0

=============================================================================
